---- MODULE Spec2Model ----
(***************************************************************************)
(* The JSON-RPC endpoint of google-sheets-mcp (src/api/mcp.ts): the        *)
(* spreadsheet-identifier normalizer, the tool registry, the tool invoker  *)
(* and the envelope dispatcher, with the Google client as an environment   *)
(* that resolves or rejects each call.                                     *)
(***************************************************************************)
EXTENDS Integers, Sequences, FiniteSets, TLC

VARIABLES
    envKey,     \* process.env.GOOGLE_SERVICE_ACCOUNT_KEY, fixed at process start
    req,        \* req[r]: the HTTP request slot r is handling
    pc,         \* pc[r]: "idle", "awaiting" or "serving" (client call in flight), "done", "escaped"
    headers,    \* headers[r]: the response headers set so far
    resp,       \* resp[r]: the sequence of responses written to res
    invoked,    \* invoked[r]: the sequence of handleToolCall invocations
    calls,      \* calls[r]: the sequence of external client calls, each pending, resolved or rejected
    input,      \* normalizer harness: the string under test
    once,       \* normalizer harness: extractSpreadsheetId(input)
    twice       \* normalizer harness: extractSpreadsheetId(once)

vars == <<envKey, req, pc, headers, resp, invoked, calls, input, once, twice>>
handlerVars == <<envKey, req, pc, headers, resp, invoked, calls>>
normVars == <<input, once, twice>>

----------------------------------------------------------------------------
(* JavaScript values.  Every value carries its type tag; an object is a    *)
(* function from member names to values.  Strings that the normalizer      *)
(* inspects are sequences of characters, all other strings are atoms.      *)

Undefined == [t |-> "undefined"]
Null == [t |-> "null"]
Num(n) == [t |-> "number", v |-> n]
Str(s) == [t |-> "string", v |-> s]
Arr(s) == [t |-> "array", v |-> s]
Obj(f) == [t |-> "object", v |-> f]
Bool(b) == [t |-> "boolean", v |-> b]
EmptyObj == Obj(<<>>)

\* x == null || x === undefined
Nullish(x) == x.t \in {"undefined", "null"}

\* !x
Falsy(x) ==
    \/ Nullish(x)
    \/ x.t = "string" /\ Len(x.v) = 0
    \/ x.t = "number" /\ x.v = 0
    \/ x.t = "boolean" /\ ~x.v

\* x.k for a value x that is neither null nor undefined
Get(x, k) == IF x.t = "object" /\ k \in DOMAIN x.v THEN x.v[k] ELSE Undefined

\* x?.k
OptGet(x, k) == IF Nullish(x) THEN Undefined ELSE Get(x, k)

\* x ?? d
Coalesce(x, d) == IF Nullish(x) THEN d ELSE x

\* x || d
OrElse(x, d) == IF Falsy(x) THEN d ELSE x

\* String(n) for an integer n: its decimal digits
RECURSIVE Decimal(_)
Decimal(n) ==
    IF n < 0 THEN "-" \o Decimal(0 - n)
    ELSE IF n < 10 THEN <<"0", "1", "2", "3", "4", "5", "6", "7", "8", "9">>[n + 1]
    ELSE Decimal(n \div 10) \o Decimal(n % 10)

\* `${x}` inside a template literal, for the values that reach one
ToText(x) ==
    IF x.t = "string" THEN x.v
    ELSE IF x.t = "number" THEN Decimal(x.v)
    ELSE x.t

----------------------------------------------------------------------------
(* The identifier normalizer: input.match(/\/spreadsheets\/d\/([a-zA-Z0-9-_]+)/) *)

Letters ==
    {"a","b","c","d","e","f","g","h","i","j","k","l","m",
     "n","o","p","q","r","s","t","u","v","w","x","y","z",
     "A","B","C","D","E","F","G","H","I","J","K","L","M",
     "N","O","P","Q","R","S","T","U","V","W","X","Y","Z"}
Digits == {"0","1","2","3","4","5","6","7","8","9"}

\* the character class [a-zA-Z0-9-_]
IsIdChar(c) == c \in Letters \cup Digits \cup {"-", "_"}

\* the literal part of the pattern: /spreadsheets/d/
Prefix == <<"/","s","p","r","e","a","d","s","h","e","e","t","s","/","d","/">>

\* the pattern matches at position p: the literal, then at least one class character
MatchAt(s, p) ==
    /\ p + Len(Prefix) <= Len(s)
    /\ SubSeq(s, p, p + Len(Prefix) - 1) = Prefix
    /\ IsIdChar(s[p + Len(Prefix)])

\* the greedy + : the last index of the run of class characters that starts at i
RECURSIVE RunEnd(_, _)
RunEnd(s, i) == IF i + 1 <= Len(s) /\ IsIdChar(s[i + 1]) THEN RunEnd(s, i + 1) ELSE i

\* String.prototype.match scans left to right; 0 when no position matches
RECURSIVE FirstMatch(_, _)
FirstMatch(s, p) ==
    IF p > Len(s) THEN 0
    ELSE IF MatchAt(s, p) THEN p
    ELSE FirstMatch(s, p + 1)

\* variant of Capture: match[0], the whole match, instead of match[1]
CaptureWholeMatch(s, p) == SubSeq(s, p, RunEnd(s, p + Len(Prefix)))

\* match[1]: the capture group of the match at position p
Capture(s, p) == SubSeq(s, p + Len(Prefix), RunEnd(s, p + Len(Prefix)))

extractSpreadsheetId(s) ==
    LET p == FirstMatch(s, 1)
    IN  IF p # 0 THEN Capture(s, p) ELSE s

----------------------------------------------------------------------------
(* The tool registry: toolDefinitions, by name and required arguments.     *)

Tool(name, required) == [name |-> name, required |-> required]

\* variant of toolDefinitions: batch_update listed, though the invoker has no case for it
toolDefinitionsWithBatch == <<
    Tool("list_spreadsheets", <<>>),
    Tool("get_spreadsheet_info", <<"spreadsheet_id">>),
    Tool("read_range", <<"spreadsheet_id", "range">>),
    Tool("write_range", <<"spreadsheet_id", "range", "values">>),
    Tool("append_data", <<"spreadsheet_id", "range", "values">>),
    Tool("clear_range", <<"spreadsheet_id", "range">>),
    Tool("create_spreadsheet", <<"title">>),
    Tool("add_sheet", <<"spreadsheet_id", "title">>),
    Tool("duplicate_sheet", <<"spreadsheet_id", "sheet_id">>),
    Tool("batch_update", <<"spreadsheet_id", "requests">>) >>

toolDefinitions == <<
    Tool("list_spreadsheets", <<>>),
    Tool("get_spreadsheet_info", <<"spreadsheet_id">>),
    Tool("read_range", <<"spreadsheet_id", "range">>),
    Tool("write_range", <<"spreadsheet_id", "range", "values">>),
    Tool("append_data", <<"spreadsheet_id", "range", "values">>),
    Tool("clear_range", <<"spreadsheet_id", "range">>),
    Tool("create_spreadsheet", <<"title">>),
    Tool("add_sheet", <<"spreadsheet_id", "title">>),
    Tool("duplicate_sheet", <<"spreadsheet_id", "sheet_id">>) >>

----------------------------------------------------------------------------
(* The tool invoker, handleToolCall, in two halves: the synchronous part   *)
(* up to the awaited client call, and the part that shapes the client's    *)
(* response into the tool result.                                          *)

Err(name, message) == [name |-> name, message |-> message]
Thrown(e) == [kind |-> "throw", error |-> e, invoked |-> <<>>]
Awaiting(api, params) == [kind |-> "call", api |-> api, params |-> params, invoked |-> <<>>]

\* JSON.parse(process.env.GOOGLE_SERVICE_ACCOUNT_KEY || "{}") succeeds
CredentialsParse(key) == OrElse(key, Str("{}")) # Str("not json")

\* variant of CallWithId: the argument goes to the client as it came
CallWithIdRaw(args, api, rest) ==
    LET raw == Get(args, "spreadsheet_id")
    IN  IF raw.t # "string"
        THEN Thrown(Err("TypeError", <<"input.match">>))
        ELSE Awaiting(api, [spreadsheetId |-> raw.v, rest |-> rest])

\* const id = extractSpreadsheetId(args.spreadsheet_id as string), then the
\* client call with spreadsheetId: id; input.match throws on a non-string
CallWithId(args, api, rest) ==
    LET raw == Get(args, "spreadsheet_id")
    IN  IF raw.t # "string"
        THEN Thrown(Err("TypeError", <<"input.match">>))
        ELSE Awaiting(api, [spreadsheetId |-> extractSpreadsheetId(raw.v), rest |-> rest])

\* requestBody of spreadsheets.create: sheets only for a non-empty sheet_titles
CreateRequestBody(args) ==
    LET titles == Get(args, "sheet_titles")
        properties == [title |-> Get(args, "title")]
    IN  IF ~Falsy(titles) /\ titles.t = "array" /\ Len(titles.v) > 0
        THEN [properties |-> properties,
              sheets |-> [i \in 1..Len(titles.v) |-> [properties |-> [title |-> titles.v[i]]]]]
        ELSE [properties |-> properties]

handleToolCallStart(name, args, key) ==
    IF ~CredentialsParse(key) THEN Thrown(Err("SyntaxError", <<"JSON.parse">>))
    ELSE CASE name = Str("list_spreadsheets") ->
                Awaiting("drive.files.list", [pageSize |-> 50, orderBy |-> "modifiedTime desc"])
           [] name = Str("get_spreadsheet_info") ->
                CallWithId(args, "spreadsheets.get", <<>>)
           [] name = Str("read_range") ->
                CallWithId(args, "spreadsheets.values.get", [range |-> Get(args, "range")])
           [] name = Str("write_range") ->
                CallWithId(args, "spreadsheets.values.update",
                           [range |-> Get(args, "range"), values |-> Get(args, "values")])
           [] name = Str("append_data") ->
                CallWithId(args, "spreadsheets.values.append",
                           [range |-> Get(args, "range"), values |-> Get(args, "values")])
           [] name = Str("clear_range") ->
                CallWithId(args, "spreadsheets.values.clear", [range |-> Get(args, "range")])
           [] name = Str("create_spreadsheet") ->
                Awaiting("spreadsheets.create", [requestBody |-> CreateRequestBody(args)])
           [] name = Str("add_sheet") ->
                CallWithId(args, "spreadsheets.batchUpdate",
                           [addSheet |-> [title |-> Get(args, "title"), index |-> Get(args, "index")]])
           [] name = Str("duplicate_sheet") ->
                CallWithId(args, "spreadsheets.batchUpdate",
                           [duplicateSheet |-> [sourceSheetId |-> Get(args, "sheet_id"),
                                                newSheetName |-> Get(args, "new_title"),
                                                insertSheetIndex |-> Get(args, "insert_index")]])
           [] OTHER -> Thrown(Err("Error", <<"Unknown tool: ", ToText(name)>>))

\* x?.[0]
OptFirst(x) == IF x.t = "array" /\ Len(x.v) > 0 THEN x.v[1] ELSE Undefined

\* { sheetId: props?.sheetId, title: props?.title, index: props?.index }
SheetProps(props) ==
    Obj([sheetId |-> OptGet(props, "sheetId"),
         title |-> OptGet(props, "title"),
         index |-> OptGet(props, "index")])

\* variant of SheetTitles: the titles in reverse order
SheetTitlesReversed(sheets) ==
    IF Nullish(sheets) THEN Undefined
    ELSE Arr([i \in 1..Len(sheets.v) |->
                OptGet(Get(sheets.v[Len(sheets.v) + 1 - i], "properties"), "title")])

\* response.data.sheets?.map(s => s.properties?.title)
SheetTitles(sheets) ==
    IF Nullish(sheets) THEN Undefined
    ELSE Arr([i \in 1..Len(sheets.v) |-> OptGet(Get(sheets.v[i], "properties"), "title")])

handleToolCallFinish(name, args, data) ==
    CASE name = Str("list_spreadsheets") -> OrElse(Get(data, "files"), Arr(<<>>))
      [] name = Str("get_spreadsheet_info") -> data
      [] name = Str("read_range") -> OrElse(Get(data, "values"), Arr(<<>>))
      [] name = Str("write_range") ->
            Obj([updatedCells |-> Get(data, "updatedCells"),
                 updatedRange |-> Get(data, "updatedRange")])
      [] name = Str("append_data") ->
            Obj([updatedRows |-> OptGet(Get(data, "updates"), "updatedRows"),
                 tableRange |-> Get(data, "tableRange")])
      [] name = Str("clear_range") -> Obj([cleared |-> Get(args, "range")])
      [] name = Str("create_spreadsheet") ->
            Obj([spreadsheetId |-> Get(data, "spreadsheetId"),
                 spreadsheetUrl |-> Get(data, "spreadsheetUrl"),
                 sheets |-> SheetTitles(Get(data, "sheets"))])
      [] name = Str("add_sheet") ->
            SheetProps(OptGet(OptGet(OptFirst(Get(data, "replies")), "addSheet"), "properties"))
      [] name = Str("duplicate_sheet") ->
            SheetProps(OptGet(OptGet(OptFirst(Get(data, "replies")), "duplicateSheet"), "properties"))

----------------------------------------------------------------------------
(* Text and serialisation.  A template literal is the sequence of its      *)
(* parts; JSON.stringify(x) is the string described by the JSON form of x, *)
(* in which undefined members are dropped and undefined elements are null. *)

Template(parts) == [t |-> "string", parts |-> parts]

RECURSIVE JsonForm(_)
JsonForm(x) ==
    CASE x.t = "object" ->
            Obj([k \in {m \in DOMAIN x.v : x.v[m] # Undefined} |-> JsonForm(x.v[k])])
      [] x.t = "array" ->
            Arr([i \in 1..Len(x.v) |-> IF x.v[i] = Undefined THEN Null ELSE JsonForm(x.v[i])])
      [] OTHER -> x

\* JSON.stringify(result, null, 2)
JsonText(x) == [t |-> "string", json |-> JsonForm(x)]

----------------------------------------------------------------------------
(* The envelope dispatcher: handler.                                       *)

createResponse(id, result) == Obj([jsonrpc |-> Str("2.0"), id |-> id, result |-> result])

\* variant of createError: a null result member next to the error
createErrorWithResult(id, code, message) ==
    Obj([jsonrpc |-> Str("2.0"), id |-> id, result |-> Null,
         error |-> Obj([code |-> Num(code), message |-> message])])

createError(id, code, message) ==
    Obj([jsonrpc |-> Str("2.0"), id |-> id,
         error |-> Obj([code |-> Num(code), message |-> message])])

\* res.status(status).json(data): the body on the wire is the JSON form of data
Reply(status, data) ==
    [kind |-> "reply", status |-> status, send |-> "json", body |-> JsonForm(data), invoked |-> <<>>]

\* res.status(status).end()
End(status) ==
    [kind |-> "reply", status |-> status, send |-> "end", body |-> Undefined, invoked |-> <<>>]

CorsHeaders ==
    {"Access-Control-Allow-Origin", "Access-Control-Allow-Methods", "Access-Control-Allow-Headers"}

\* variant of MethodNotAllowed: answered as an unknown JSON-RPC method
MethodNotAllowedAsNotFound == Reply(405, createError(Null, -32601, Str("Method not allowed")))

MethodNotAllowed == Reply(405, createError(Null, -32600, Str("Method not allowed")))

\* variant of InvalidVersion: request?.id || null, which loses the id 0
InvalidVersionFalsyId(request) ==
    Reply(400, createError(OrElse(OptGet(request, "id"), Null), -32600,
                           Str("Invalid JSON-RPC version")))

InvalidVersion(request) ==
    Reply(400, createError(Coalesce(OptGet(request, "id"), Null), -32600,
                           Str("Invalid JSON-RPC version")))

InitializeResult ==
    Obj([protocolVersion |-> Str("2024-11-05"),
         serverInfo |-> Obj([name |-> Str("google-sheets-mcp"), version |-> Str("1.0.0")]),
         capabilities |-> Obj([tools |-> EmptyObj])])

\* variant of Initialize: the result reflects the params of the request
InitializeEchoParams(request) ==
    Reply(200, createResponse(Get(request, "id"),
                              Obj([protocolVersion |-> Str("2024-11-05"),
                                   serverInfo |-> Obj([name |-> Str("google-sheets-mcp"),
                                                       version |-> Str("1.0.0")]),
                                   capabilities |-> Coalesce(Get(request, "params"),
                                                             Obj([tools |-> EmptyObj]))])))

Initialize(request) == Reply(200, createResponse(Get(request, "id"), InitializeResult))

Initialized(request) == Reply(200, createResponse(Get(request, "id"), EmptyObj))

Descriptor(tool) ==
    Obj([name |-> Str(tool.name),
         inputSchema |-> Obj([type |-> Str("object"),
                              required |-> Arr([i \in 1..Len(tool.required) |-> Str(tool.required[i])])])])

\* variant of ToolsList: a registry that loses its last tool once a request has been handled
ToolsListShrinking(request) ==
    LET n == IF \E s \in DOMAIN pc : pc[s] = "done" THEN Len(toolDefinitions) - 1 ELSE Len(toolDefinitions)
    IN  Reply(200, createResponse(Get(request, "id"),
            Obj([tools |-> Arr([i \in 1..n |-> Descriptor(toolDefinitions[i])])])))

ToolsList(request) ==
    Reply(200, createResponse(Get(request, "id"),
        Obj([tools |-> Arr([i \in 1..Len(toolDefinitions) |-> Descriptor(toolDefinitions[i])])])))

\* variant of MissingToolName: the error envelope sent with status 200
MissingToolNameOk(request) ==
    Reply(200, createError(Get(request, "id"), -32602, Str("Missing tool name")))

MissingToolName(request) ==
    Reply(400, createError(Get(request, "id"), -32602, Str("Missing tool name")))

ToolSuccess(request, result) ==
    Reply(200, createResponse(Get(request, "id"),
        Obj([content |-> Arr(<<Obj([type |-> Str("text"), text |-> JsonText(result)])>>)])))

\* variant of ToolFailure: the failure of the tool reported as an internal error
ToolFailureAsError(request, error) ==
    Reply(500, createError(Get(request, "id"), -32603, Template(<<"Internal error: ", error>>)))

ToolFailure(request, error) ==
    Reply(200, createResponse(Get(request, "id"),
        Obj([content |-> Arr(<<Obj([type |-> Str("text"),
                                    text |-> Template(<<"Error: ", error>>)])>>),
             isError |-> Bool(TRUE)])))

\* variant of MethodNotFound: the message without the method name
MethodNotFoundUnnamed(request) ==
    Reply(400, createError(Get(request, "id"), -32601, Str("Method not found")))

MethodNotFound(request) ==
    Reply(400, createError(Get(request, "id"), -32601,
                           Template(<<"Method not found: ", ToText(Get(request, "method"))>>)))

InternalError(request, error) ==
    Reply(500, createError(Get(request, "id"), -32603, Template(<<"Internal error: ", error>>)))

\* params.arguments || {}
ToolArgs(params) == OrElse(Get(params, "arguments"), EmptyObj)

\* variant of ToolsCall: no check of params.name before the invoker is called
ToolsCallUnchecked(request, key) ==
    LET params == Get(request, "params")
        name == OptGet(params, "name")
        args == OrElse(OptGet(params, "arguments"), EmptyObj)
        o == handleToolCallStart(name, args, key)
        after == IF o.kind = "throw" THEN ToolFailure(request, o.error) ELSE o
    IN  [after EXCEPT !.invoked = <<[name |-> name, args |-> args]>>]

\* case "tools/call", up to the await
ToolsCall(request, key) ==
    LET params == Get(request, "params")
    IN  IF Falsy(OptGet(params, "name"))
        THEN MissingToolName(request)
        ELSE LET name == Get(params, "name")
                 args == ToolArgs(params)
                 o == handleToolCallStart(name, args, key)
                 after == IF o.kind = "throw" THEN ToolFailure(request, o.error) ELSE o
             IN  [after EXCEPT !.invoked = <<[name |-> name, args |-> args]>>]

\* switch (request.method)
Route(request, key) ==
    LET method == Get(request, "method")
    IN  CASE method = Str("initialize") -> Initialize(request)
          [] method = Str("notifications/initialized") -> Initialized(request)
          [] method = Str("tools/list") -> ToolsList(request)
          [] method = Str("tools/call") -> ToolsCall(request, key)
          [] OTHER -> MethodNotFound(request)

\* variant of handlerStart: the method is routed before the protocol tag is checked
handlerStartRouteFirst(q, key) ==
    IF q.method = "OPTIONS" THEN End(200)
    ELSE IF q.method # "POST" THEN MethodNotAllowed
    ELSE LET request == q.body
         IN  IF Nullish(request)
             THEN Thrown(Err("TypeError", <<"request.jsonrpc">>))
             ELSE IF Get(request, "method") = Str("tools/call")
             THEN ToolsCall(request, key)
             ELSE IF Falsy(Get(request, "jsonrpc")) \/ Get(request, "jsonrpc") # Str("2.0")
             THEN InvalidVersion(request)
             ELSE Route(request, key)

\* the handler up to its first await: a reply, a pending client call, or a
\* failure that leaves the handler
handlerStart(q, key) ==
    IF q.method = "OPTIONS" THEN End(200)
    ELSE IF q.method # "POST" THEN MethodNotAllowed
    ELSE LET request == q.body
         IN  IF Nullish(request)
             THEN Thrown(Err("TypeError", <<"request.jsonrpc">>))
             ELSE IF Falsy(Get(request, "jsonrpc")) \/ Get(request, "jsonrpc") # Str("2.0")
             THEN InvalidVersion(request)
             ELSE LET o == Route(request, key)
                  IN  IF o.kind = "throw" THEN InternalError(request, o.error) ELSE o

\* the handler after the awaited client call resolved with response.data = data
handlerResolved(q, data) ==
    LET params == Get(q.body, "params")
    IN  ToolSuccess(q.body, handleToolCallFinish(Get(params, "name"), ToolArgs(params), data))

\* the handler after the awaited client call rejected with error
handlerRejected(q, error) == ToolFailure(q.body, error)

----------------------------------------------------------------------------
(* The second entry point (createMcpHandler): the callbacks registered     *)
(* with server.tool.  The library validates the arguments against the      *)
(* schema and calls the callback; each callback catches its own failures.  *)

ServerNames ==
    {"list_spreadsheets", "get_spreadsheet_info", "read_range", "write_range",
     "append_data", "clear_range", "create_spreadsheet", "batch_update"}

\* a callback up to its awaited client call
serverToolStart(name, args, key) ==
    IF ~CredentialsParse(key) THEN Thrown(Err("SyntaxError", <<"JSON.parse">>))
    ELSE CASE name = "list_spreadsheets" ->
                Awaiting("drive.files.list", [pageSize |-> 50, orderBy |-> "modifiedTime desc"])
           [] name = "get_spreadsheet_info" ->
                CallWithId(args, "spreadsheets.get", <<>>)
           [] name = "read_range" ->
                CallWithId(args, "spreadsheets.values.get", [range |-> Get(args, "range")])
           [] name = "write_range" ->
                CallWithId(args, "spreadsheets.values.update",
                           [range |-> Get(args, "range"), values |-> Get(args, "values")])
           [] name = "append_data" ->
                CallWithId(args, "spreadsheets.values.append",
                           [range |-> Get(args, "range"), values |-> Get(args, "values")])
           [] name = "clear_range" ->
                CallWithId(args, "spreadsheets.values.clear", [range |-> Get(args, "range")])
           [] name = "create_spreadsheet" ->
                Awaiting("spreadsheets.create", [requestBody |-> CreateRequestBody(args)])
           [] name = "batch_update" ->
                CallWithId(args, "spreadsheets.batchUpdate", [requests |-> Get(args, "requests")])

\* response.data.replies?.length || 0
ReplyCount(data) ==
    LET replies == Get(data, "replies")
    IN  IF replies.t = "array" THEN Len(replies.v) ELSE 0

\* the text a callback returns after its client call resolved
serverToolText(name, args, data) ==
    CASE name = "list_spreadsheets" -> JsonText(OrElse(Get(data, "files"), Arr(<<>>)))
      [] name = "get_spreadsheet_info" -> JsonText(data)
      [] name = "read_range" -> JsonText(OrElse(Get(data, "values"), Arr(<<>>)))
      [] name = "write_range" ->
            Template(<<"Updated ", ToText(Get(data, "updatedCells")), " cells in ",
                       ToText(Get(data, "updatedRange"))>>)
      [] name = "append_data" ->
            Template(<<"Appended ", ToText(OptGet(Get(data, "updates"), "updatedRows")),
                       " rows to ", ToText(Get(data, "tableRange"))>>)
      [] name = "clear_range" -> Template(<<"Cleared range: ", ToText(Get(args, "range"))>>)
      [] name = "create_spreadsheet" ->
            JsonText(Obj([spreadsheetId |-> Get(data, "spreadsheetId"),
                          spreadsheetUrl |-> Get(data, "spreadsheetUrl"),
                          sheets |-> SheetTitles(Get(data, "sheets"))]))
      [] name = "batch_update" ->
            Template(<<"Batch update completed. ", Decimal(ReplyCount(data)), " operations executed.">>)

\* return { content: [{ type: "text", text }] }
serverToolResult(text) == Obj([content |-> Arr(<<Obj([type |-> Str("text"), text |-> text])>>)])

\* the catch of a callback
serverToolError(error) ==
    Obj([content |-> Arr(<<Obj([type |-> Str("text"), text |-> Template(<<"Error: ", error>>)])>>),
         isError |-> Bool(TRUE)])

\* what a callback hands back to the library
Returned(value) == [send |-> "return", body |-> value]

----------------------------------------------------------------------------
(* The Google client: the response.data a call can resolve with, and the   *)
(* errors it can reject with.                                              *)

\* the sheets of a created document: one per requested sheet, in order, or
\* the single default sheet
CreatedSheets(requestBody) ==
    IF "sheets" \in DOMAIN requestBody
    THEN [i \in 1..Len(requestBody.sheets) |->
            Obj([properties |-> Obj([title |-> requestBody.sheets[i].properties.title,
                                     index |-> Num(i - 1)])])]
    ELSE << Obj([properties |-> Obj([title |-> Str("Sheet1"), index |-> Num(0)])]) >>

\* the reply to the single request of a batchUpdate
BatchReply(rest) ==
    LET properties == Obj([sheetId |-> Num(7), title |-> Str("Copy"), index |-> Num(1)])
    IN  IF "addSheet" \in DOMAIN rest
        THEN Obj([addSheet |-> Obj([properties |-> properties])])
        ELSE Obj([duplicateSheet |-> Obj([properties |-> properties])])

ExternalData(call) ==
    CASE call.api = "drive.files.list" ->
            {EmptyObj, Obj([files |-> Arr(<<Obj([id |-> Str("f1"), name |-> Str("Budget")])>>)])}
      [] call.api = "spreadsheets.get" ->
            {Obj([properties |-> Obj([title |-> Str("Budget")]),
                  sheets |-> Arr(<<Obj([properties |-> Obj([title |-> Str("Sheet1")])])>>)])}
      [] call.api = "spreadsheets.values.get" ->
            {EmptyObj, Obj([values |-> Arr(<<Arr(<<Str("x"), Num(1)>>)>>)])}
      [] call.api = "spreadsheets.values.update" ->
            {Obj([updatedCells |-> Num(4), updatedRange |-> Str("Sheet1!A1:B2")])}
      [] call.api = "spreadsheets.values.append" ->
            {Obj([tableRange |-> Str("Sheet1!A1:B2")]),
             Obj([tableRange |-> Str("Sheet1!A1:B2"), updates |-> Obj([updatedRows |-> Num(1)])])}
      [] call.api = "spreadsheets.values.clear" ->
            {Obj([clearedRange |-> Str("Sheet1!A1:B2")])}
      [] call.api = "spreadsheets.create" ->
            {Obj([spreadsheetId |-> Str("NEW1"),
                  spreadsheetUrl |-> Str("https://docs.google.com/spreadsheets/d/NEW1/edit"),
                  sheets |-> Arr(CreatedSheets(call.params.requestBody))])}
      [] call.api = "spreadsheets.batchUpdate" ->
            {EmptyObj, Obj([replies |-> Arr(<<BatchReply(call.params.rest)>>)])}

ExternalErrors == {Err("GaxiosError", <<"The caller does not have permission">>)}

----------------------------------------------------------------------------
(* The requests the model sends.                                           *)

\* an object literal as it arrives in a JSON body: absent members are absent
Json(members) == Obj([k \in {m \in DOMAIN members : members[m] # Undefined} |-> members[k]])

RawId == <<"A","B","C","1","2","3">>
Url == <<"h","t","t","p","s",":","/","/","d","o","c","s",".","g","o","o","g","l","e",".","c","o","m">>
           \o Prefix \o RawId \o <<"/","e","d","i","t">>
Range == Str("Sheet1!A1:B2")

EnvKeys == {Undefined, Str("{\"client_email\": \"sa@example.com\"}"), Str("not json")}

HttpMethods == {"OPTIONS", "GET", "DELETE", "POST"}
Tags == {Undefined, Str("2.0"), Str("1.0")}
Ids == {Undefined, Null, Num(0), Num(1)}
Methods ==
    {Undefined, Str("initialize"), Str("notifications/initialized"), Str("tools/list"),
     Str("tools/call"), Str("unknown/method")}
RegisteredNames == {toolDefinitions[i].name : i \in 1..Len(toolDefinitions)}
Names ==
    {Undefined, Str(""), Num(7), Str("batch_update"), Str("no_such_tool")}
        \cup {Str(n) : n \in RegisteredNames}
Arguments ==
    {Undefined,
     EmptyObj,
     Obj([spreadsheet_id |-> Num(5)]),
     Obj([spreadsheet_id |-> Str(RawId), range |-> Range]),
     Obj([spreadsheet_id |-> Str(Url), range |-> Range, title |-> Str("T"), sheet_id |-> Num(0)]),
     Obj([title |-> Str("T"), sheet_titles |-> Arr(<<>>)]),
     Obj([title |-> Str("T"), sheet_titles |-> Arr(<<Str("A"), Str("B")>>)])}
Params == {Undefined} \cup {Json([name |-> n, arguments |-> a]) : n \in Names, a \in Arguments}
Envelopes ==
    {Json([jsonrpc |-> tag, id |-> id, method |-> m, params |-> p]) :
        tag \in Tags, id \in Ids, m \in Methods, p \in Params}
Bodies == {Undefined, Null, Str("text")} \cup Envelopes

\* a sample envelope for the requests whose body the handler does not read
ReadRangeCall ==
    Json([jsonrpc |-> Str("2.0"), id |-> Num(1), method |-> Str("tools/call"),
          params |-> Json([name |-> Str("read_range"),
                           arguments |-> Obj([spreadsheet_id |-> Str(Url), range |-> Range])])])

Requests ==
    {[method |-> "POST", body |-> b] : b \in Bodies}
        \cup {[method |-> m, body |-> b] : m \in HttpMethods, b \in {Undefined, ReadRangeCall}}

\* the callback invocations of the second entry point: arguments that passed
\* the schema, so spreadsheet_id is a string
ServerArguments ==
    {Obj([spreadsheet_id |-> Str(RawId), range |-> Range, values |-> Arr(<<>>),
          requests |-> Arr(<<>>), title |-> Str("T")]),
     Obj([spreadsheet_id |-> Str(Url), range |-> Range, values |-> Arr(<<>>),
          requests |-> Arr(<<EmptyObj>>), title |-> Str("T"), sheet_titles |-> Arr(<<>>)]),
     Obj([spreadsheet_id |-> Str(Url), range |-> Range, values |-> Arr(<<>>),
          requests |-> Arr(<<EmptyObj>>), title |-> Str("T"),
          sheet_titles |-> Arr(<<Str("A"), Str("B")>>)])}

ServerCalls == {[method |-> "server.tool", name |-> n, args |-> a] : n \in ServerNames, a \in ServerArguments}

NoRequest == [method |-> "none", body |-> Undefined]

----------------------------------------------------------------------------
(* One activation of the handler per slot.                                 *)

Slots == DOMAIN pc

Last(s) == s[Len(s)]

Written(o) == [status |-> o.status, send |-> o.send, body |-> o.body]

\* a client call in flight; data is the response.data it resolves with
Pending(o) == [api |-> o.api, params |-> o.params, state |-> "pending", data |-> Undefined]

\* the last call of the sequence settled
Settled(cs, state, data) == [cs EXCEPT ![Len(cs)].state = state, ![Len(cs)].data = data]

Receive(r, Q) ==
    /\ pc[r] = "idle"
    /\ \E q \in Q :
        LET o == handlerStart(q, envKey)
        IN  /\ req' = [req EXCEPT ![r] = q]
            /\ pc' = [pc EXCEPT ![r] = CASE o.kind = "reply" -> "done"
                                         [] o.kind = "call" -> "awaiting"
                                         [] o.kind = "throw" -> "escaped"]
            /\ resp' = [resp EXCEPT ![r] = IF o.kind = "reply" THEN Append(@, Written(o)) ELSE @]
            /\ invoked' = [invoked EXCEPT ![r] = @ \o o.invoked]
            /\ calls' = [calls EXCEPT ![r] =
                            IF o.kind = "call"
                            THEN Append(@, Pending(o))
                            ELSE @]
    /\ headers' = [headers EXCEPT ![r] = CorsHeaders]
    /\ UNCHANGED <<envKey, normVars>>

Resolve(r) ==
    /\ pc[r] = "awaiting"
    /\ \E data \in ExternalData(Last(calls[r])) :
          /\ resp' = [resp EXCEPT ![r] = Append(@, Written(handlerResolved(req[r], data)))]
          /\ calls' = [calls EXCEPT ![r] = Settled(@, "resolved", data)]
    /\ pc' = [pc EXCEPT ![r] = "done"]
    /\ UNCHANGED <<envKey, req, headers, invoked, normVars>>

\* variant of Reject: a failed client call is attempted once more before the failure is reported
RejectWithRetry(r) ==
    /\ pc[r] = "awaiting"
    /\ IF Len(calls[r]) < 2
       THEN /\ calls' = [calls EXCEPT ![r] =
                            Append(Settled(@, "rejected", Undefined),
                                   [Last(@) EXCEPT !.state = "pending"])]
            /\ UNCHANGED <<resp, pc>>
       ELSE /\ \E error \in ExternalErrors :
                  resp' = [resp EXCEPT ![r] = Append(@, Written(handlerRejected(req[r], error)))]
            /\ calls' = [calls EXCEPT ![r] = Settled(@, "rejected", Undefined)]
            /\ pc' = [pc EXCEPT ![r] = "done"]
    /\ UNCHANGED <<envKey, req, headers, invoked, normVars>>

Reject(r) ==
    /\ pc[r] = "awaiting"
    /\ \E error \in ExternalErrors :
          resp' = [resp EXCEPT ![r] = Append(@, Written(handlerRejected(req[r], error)))]
    /\ calls' = [calls EXCEPT ![r] = Settled(@, "rejected", Undefined)]
    /\ pc' = [pc EXCEPT ![r] = "done"]
    /\ UNCHANGED <<envKey, req, headers, invoked, normVars>>

\* the library calls the callback registered under q.name
ServerTool(r) ==
    /\ pc[r] = "idle"
    /\ \E q \in ServerCalls :
        LET o == serverToolStart(q.name, q.args, envKey)
        IN  /\ req' = [req EXCEPT ![r] = q]
            /\ pc' = [pc EXCEPT ![r] = IF o.kind = "call" THEN "serving" ELSE "done"]
            /\ resp' = [resp EXCEPT ![r] =
                            IF o.kind = "throw" THEN Append(@, Returned(serverToolError(o.error)))
                            ELSE @]
            /\ calls' = [calls EXCEPT ![r] = IF o.kind = "call" THEN Append(@, Pending(o)) ELSE @]
    /\ UNCHANGED <<envKey, headers, invoked, normVars>>

ServerResolve(r) ==
    /\ pc[r] = "serving"
    /\ \E data \in ExternalData(Last(calls[r])) :
          /\ resp' = [resp EXCEPT ![r] =
                Append(@, Returned(serverToolResult(serverToolText(req[r].name, req[r].args, data))))]
          /\ calls' = [calls EXCEPT ![r] = Settled(@, "resolved", data)]
    /\ pc' = [pc EXCEPT ![r] = "done"]
    /\ UNCHANGED <<envKey, req, headers, invoked, normVars>>

ServerReject(r) ==
    /\ pc[r] = "serving"
    /\ \E error \in ExternalErrors :
          resp' = [resp EXCEPT ![r] = Append(@, Returned(serverToolError(error)))]
    /\ calls' = [calls EXCEPT ![r] = Settled(@, "rejected", Undefined)]
    /\ pc' = [pc EXCEPT ![r] = "done"]
    /\ UNCHANGED <<envKey, req, headers, invoked, normVars>>

NotRun == <<"not run">>

InitSlots(S) ==
    /\ req = [r \in S |-> NoRequest]
    /\ pc = [r \in S |-> "idle"]
    /\ headers = [r \in S |-> {}]
    /\ resp = [r \in S |-> <<>>]
    /\ invoked = [r \in S |-> <<>>]
    /\ calls = [r \in S |-> <<>>]

\* one request, any of Requests, or one callback invocation, any of ServerCalls
Init ==
    /\ envKey \in EnvKeys
    /\ InitSlots({1})
    /\ input = <<>> /\ once = NotRun /\ twice = NotRun

Next ==
    \E r \in Slots :
        \/ Receive(r, Requests)
        \/ Resolve(r)
        \/ Reject(r)
        \/ ServerTool(r)
        \/ ServerResolve(r)
        \/ ServerReject(r)

Spec == Init /\ [][Next]_vars

----------------------------------------------------------------------------
(* Concurrent activations: NumReq requests in flight, interleaved at the   *)
(* await of the client call.                                               *)

\* the client call of a request in flight settles: it resolves or it rejects
SpecLive ==
    /\ Spec
    /\ WF_vars(Resolve(1) \/ Reject(1))
    /\ WF_vars(ServerResolve(1) \/ ServerReject(1))

NumReq == 2

ConcRequests ==
    {[method |-> "POST", body |-> Json([jsonrpc |-> tag, id |-> Num(1), method |-> m, params |-> p])] :
        tag \in {Undefined, Str("2.0")},
        m \in {Str("initialize"), Str("notifications/initialized"), Str("tools/list"),
               Str("tools/call"), Str("unknown/method")},
        p \in {Undefined,
               Json([name |-> Str("read_range"),
                     arguments |-> Obj([spreadsheet_id |-> Str(Url), range |-> Range])])}}
    \cup
    {[method |-> "POST", body |-> Json([jsonrpc |-> Str("2.0"), id |-> Num(2), method |-> m,
                                        params |-> Json([name |-> Str("no_such_tool")])])] :
        m \in {Str("initialize"), Str("tools/call")}}

InitConc ==
    /\ envKey \in EnvKeys
    /\ InitSlots(1..NumReq)
    /\ input = <<>> /\ once = NotRun /\ twice = NotRun

NextConc ==
    \E r \in Slots :
        \/ Receive(r, ConcRequests)
        \/ Resolve(r)
        \/ Reject(r)

SpecConc == InitConc /\ [][NextConc]_vars

----------------------------------------------------------------------------
(* The normalizer on its own: strings assembled from at most MaxFrags      *)
(* fragments, normalized once and then once more.                          *)

MaxFrags == 3

Fragments ==
    {Prefix, Tail(Prefix), <<"/", "d", "/">>, <<"/">>, <<"?">>, <<"d">>, <<"A">>, <<"-">>, <<"_", "9">>}

RECURSIVE Assembled(_)
Assembled(n) ==
    IF n = 0 THEN {<<>>}
    ELSE LET shorter == Assembled(n - 1)
         IN  shorter \cup {s \o f : s \in shorter, f \in Fragments}

NormInputs == Assembled(MaxFrags) \cup {RawId, Url}

InitNorm ==
    /\ envKey = Undefined
    /\ InitSlots({})
    /\ input \in NormInputs
    /\ once = NotRun
    /\ twice = NotRun

NormalizeOnce ==
    /\ once = NotRun
    /\ once' = extractSpreadsheetId(input)
    /\ UNCHANGED <<input, twice, handlerVars>>

NormalizeTwice ==
    /\ once # NotRun
    /\ twice = NotRun
    /\ twice' = extractSpreadsheetId(once)
    /\ UNCHANGED <<input, once, handlerVars>>

NextNorm == NormalizeOnce \/ NormalizeTwice

SpecNorm == InitNorm /\ [][NextNorm]_vars

----------------------------------------------------------------------------
(* Vocabulary of the properties.                                           *)

Body(r) == req[r].body
IsPost(r) == req[r].method = "POST"
\* the body is there to be read: neither undefined nor null
HasEnvelope(r) == IsPost(r) /\ ~Nullish(Body(r))
ValidTag(r) == HasEnvelope(r) /\ Get(Body(r), "jsonrpc") = Str("2.0")
Method(r) == Get(Body(r), "method")
ToolName(r) == OptGet(Get(Body(r), "params"), "name")
IsToolsCall(r) == ValidTag(r) /\ Method(r) = Str("tools/call")
Answered(r) == pc[r] = "done" /\ Len(resp[r]) > 0
Response(r) == Last(resp[r])
Envelope(r) == Response(r).body
HasMember(x, k) == x.t = "object" /\ k \in DOMAIN x.v
IsResult(e) == HasMember(e, "result") /\ ~HasMember(e, "error")
IsError(e, code) ==
    /\ HasMember(e, "error") /\ ~HasMember(e, "result")
    /\ Get(Get(e, "error"), "code") = Num(code)
\* the response carries the id of the request, and none when the request has none
EchoesId(r) == Get(Envelope(r), "id") = Get(Body(r), "id")
\* the result is a tool-level failure: isError true and a text message as content
IsToolFailure(e) ==
    /\ IsResult(e)
    /\ Get(Get(e, "result"), "isError") = Bool(TRUE)
    /\ LET content == Get(Get(e, "result"), "content")
       IN  /\ content.t = "array" /\ Len(content.v) = 1
           /\ Get(content.v[1], "type") = Str("text")
           /\ Get(content.v[1], "text").t = "string"
RegisteredTool(r) == ToolName(r).t = "string" /\ ToolName(r).v \in RegisteredNames
NoToolWork(r) == invoked[r] = <<>> /\ calls[r] = <<>>

----------------------------------------------------------------------------
(* The claims.                                                             *)

\* C1: a tools/call with a valid envelope and a non-empty name that is not a
\* registered tool is answered with an envelope-level error of code -32602
\* (an error member, no result member), not with a result that carries the
\* tool-level failure flag.  (Stated where the credentials parse, so that the
\* unknown name is the only thing wrong with the request.)
C1_UnknownToolIsParamError ==
    \A r \in Slots :
        (/\ IsToolsCall(r)
         /\ ToolName(r).t = "string" /\ ~Falsy(ToolName(r)) /\ ~RegisteredTool(r)
         /\ CredentialsParse(envKey)
         /\ Answered(r))
            => IsError(Envelope(r), -32602)

\* an operation on a registered tool failed: before the client call (no call
\* was made) or in it (the call was rejected)
OperationFailed(r) ==
    /\ IsToolsCall(r) /\ RegisteredTool(r) /\ pc[r] = "done"
    /\ calls[r] = <<>> \/ Last(calls[r]).state = "rejected"

\* C2: a tools/call naming a registered tool whose operation fails, in the
\* external client or in the handler before the client call, is answered with
\* HTTP 200 and a result whose isError flag is true and whose content is a text
\* message, with the request id echoed; never with an envelope-level error.
C2_FailureIsToolLevel ==
    \A r \in Slots :
        OperationFailed(r) =>
            /\ Len(resp[r]) = 1
            /\ Response(r).status = 200
            /\ IsToolFailure(Envelope(r))
            /\ EchoesId(r)

C2_Witness ==
    \E r \in Slots :
        /\ OperationFailed(r)
        /\ calls[r] # <<>>
        /\ Get(Body(r), "id") = Num(1)
        /\ IsToolFailure(Envelope(r))

\* C2 also for the failure before the client call: read_range without spreadsheet_id
C2_WitnessAbsentId ==
    \E r \in Slots :
        /\ OperationFailed(r)
        /\ ToolName(r) = Str("read_range")
        /\ CredentialsParse(envKey)
        /\ calls[r] = <<>>
        /\ IsToolFailure(Envelope(r))

KnownMethods ==
    {Str("initialize"), Str("notifications/initialized"), Str("tools/list"), Str("tools/call")}

\* the message of the error envelope has the text as one of its parts
MessageContains(e, text) ==
    LET message == Get(Get(e, "error"), "message")
    IN  /\ "parts" \in DOMAIN message
        /\ \E i \in 1..Len(message.parts) : message.parts[i] = text

\* C3: a POST with a valid protocol tag whose method is none of initialize,
\* notifications/initialized, tools/list, tools/call is answered with an error
\* envelope of code -32601 whose message contains the method name, with the
\* request id echoed, and no tool handler is invoked.
C3_UnknownMethod ==
    \A r \in Slots :
        (ValidTag(r) /\ Method(r) \notin KnownMethods /\ pc[r] # "idle") =>
            /\ Answered(r)
            /\ IsError(Envelope(r), -32601)
            /\ Method(r).t = "string" => MessageContains(Envelope(r), Method(r).v)
            /\ EchoesId(r)
            /\ NoToolWork(r)

C3_Witness ==
    \E r \in Slots :
        /\ ValidTag(r) /\ Method(r) = Str("unknown/method")
        /\ Get(Body(r), "id") = Num(1)
        /\ Answered(r)
        /\ MessageContains(Envelope(r), "unknown/method")

\* the envelope of the request has no protocol tag
LacksTag(r) == HasEnvelope(r) /\ Get(Body(r), "jsonrpc") = Undefined

\* C4 as stated: a POST whose envelope lacks the protocol tag is answered with
\* the invalid-envelope code -32600 and id null, whatever else it carries.
C4_MissingTagIdNull ==
    \A r \in Slots :
        (LacksTag(r) /\ Answered(r)) =>
            /\ IsError(Envelope(r), -32600)
            /\ Get(Envelope(r), "id") = Null

\* C4 amended: a POST whose envelope lacks the protocol tag is answered with
\* HTTP 400 and the invalid-envelope code -32600; the id of the response is the
\* id of the envelope when it carries one that is not null, and null otherwise.
C4_MissingTagEchoesId ==
    \A r \in Slots :
        (LacksTag(r) /\ pc[r] # "idle") =>
            /\ Answered(r)
            /\ Response(r).status = 400
            /\ IsError(Envelope(r), -32600)
            /\ Get(Envelope(r), "id") =
                  (IF Get(Body(r), "id") \in {Undefined, Null} THEN Null ELSE Get(Body(r), "id"))

\* a tagless envelope that carries the id 0, and one that carries no id
C4_Witness ==
    \E r \in Slots :
        /\ LacksTag(r) /\ Answered(r)
        /\ Get(Body(r), "id") = Num(0)
        /\ Get(Envelope(r), "id") = Num(0)

C4_WitnessNoId ==
    \E r \in Slots :
        /\ LacksTag(r) /\ Answered(r)
        /\ Get(Body(r), "id") = Undefined
        /\ Get(Envelope(r), "id") = Null

\* the envelope's protocol tag is missing or is not "2.0"
BadTag(r) == HasEnvelope(r) /\ Get(Body(r), "jsonrpc") # Str("2.0")

\* C5: the protocol-tag check precedes method routing: a POST whose envelope
\* has a missing or wrong protocol tag is answered with the protocol-version
\* error whatever its method and params, and neither a tool handler nor the
\* external client is invoked for it.  (The envelope is a body that is there
\* to be read; the absent body is the case of C9.)
C5_TagCheckFirst ==
    \A r \in Slots :
        (BadTag(r) /\ pc[r] # "idle") =>
            /\ Answered(r)
            /\ Len(resp[r]) = 1
            /\ IsError(Envelope(r), -32600)
            /\ Get(Get(Envelope(r), "error"), "message") = Str("Invalid JSON-RPC version")
            /\ NoToolWork(r)

\* a tools/call of a registered tool under the wrong tag
C5_Witness ==
    \E r \in Slots :
        /\ BadTag(r) /\ Answered(r)
        /\ Get(Body(r), "jsonrpc") = Str("1.0")
        /\ Method(r) = Str("tools/call")
        /\ ToolName(r) = Str("read_range")
        /\ NoToolWork(r)

\* C6: every response envelope the handler emits, on every path, contains
\* exactly one of the members result and error.
C6_ResultXorError ==
    \A r \in Slots :
        \A i \in 1..Len(resp[r]) :
            resp[r][i].send = "json" =>
                HasMember(resp[r][i].body, "result") # HasMember(resp[r][i].body, "error")

\* the path where the two are easiest to confuse: a failed tool call
C6_Witness ==
    \E r \in Slots :
        /\ OperationFailed(r)
        /\ HasMember(Envelope(r), "result")
        /\ ~HasMember(Envelope(r), "error")

C6_WitnessError ==
    \E r \in Slots :
        /\ Answered(r) /\ Response(r).send = "json"
        /\ HasMember(Envelope(r), "error")
        /\ ~HasMember(Envelope(r), "result")

\* the names of the descriptors in a tools/list result
ListedNames(e) ==
    LET tools == Get(Get(e, "result"), "tools")
    IN  {Get(tools.v[i], "name") : i \in 1..Len(tools.v)}

\* the names tools/list returns
Listed == ListedNames(ToolsList(EmptyObj).body)

\* the name was rejected by the invoker as unknown, before any client call
RejectedAsUnknown(r) ==
    /\ pc[r] = "done" /\ calls[r] = <<>>
    /\ IsToolFailure(Envelope(r))
    /\ LET text == Get(Get(Get(Envelope(r), "result"), "content").v[1], "text")
       IN  /\ "parts" \in DOMAIN text
           /\ text.parts[2].name = "Error"
           /\ text.parts[2].message[1] = "Unknown tool: "

\* the name was dispatched to an operation: its client call was made, or its
\* handler failed on the way to it
Dispatched(r) == pc[r] \in {"awaiting", "done"} /\ ~RejectedAsUnknown(r)

C7_WitnessList ==
    \E r \in Slots :
        /\ ValidTag(r) /\ Method(r) = Str("tools/list") /\ Answered(r)
        /\ Str("duplicate_sheet") \in ListedNames(Envelope(r))

C7_WitnessUnknown ==
    \E r \in Slots :
        /\ IsToolsCall(r) /\ ToolName(r) = Str("batch_update")
        /\ RejectedAsUnknown(r)

\* C8: a tools/call whose params are absent or carry no name, or an empty
\* name, is answered with an error envelope of code -32602 with the request id
\* echoed, and neither a tool handler nor the external client is invoked.
C8_MissingToolName ==
    \A r \in Slots :
        (IsToolsCall(r) /\ ToolName(r) \in {Undefined, Str("")} /\ pc[r] # "idle") =>
            /\ Answered(r)
            /\ Len(resp[r]) = 1
            /\ IsError(Envelope(r), -32602)
            /\ EchoesId(r)
            /\ NoToolWork(r)

C8_Witness ==
    \E r \in Slots :
        /\ IsToolsCall(r) /\ Get(Body(r), "params") = Undefined
        /\ Get(Body(r), "id") = Num(1)
        /\ Answered(r) /\ IsError(Envelope(r), -32602)

C8_WitnessEmptyName ==
    \E r \in Slots :
        /\ IsToolsCall(r) /\ ToolName(r) = Str("")
        /\ Answered(r) /\ IsError(Envelope(r), -32602)

\* C9: no failure raised while handling a POST escapes the handler, the POST
\* whose body is absent or is not an object included: the request is answered
\* with an error envelope of code -32603 that carries the request's id when one
\* could be read and null otherwise.
C9_NoFailureEscapes ==
    \A r \in Slots :
        (IsPost(r) /\ pc[r] # "idle") =>
            /\ pc[r] # "escaped"
            /\ (Nullish(Body(r)) /\ pc[r] = "done") =>
                    /\ IsError(Envelope(r), -32603)
                    /\ Get(Envelope(r), "id") = Null

\* s contains /spreadsheets/d/<id> at position p, <id> being s[p+16..e]
IdAt(s, p, e) ==
    /\ p + Len(Prefix) <= e /\ e <= Len(s)
    /\ \A i \in 1..Len(Prefix) : s[p + i - 1] = Prefix[i]
    /\ \A i \in (p + Len(Prefix))..e : IsIdChar(s[i])

ContainsId(s) == \E p \in 1..Len(s), e \in 1..Len(s) : IdAt(s, p, e)

\* id is the captured <id> of s: the longest one at the first position that has one
CapturedId(s, id) ==
    \E p \in 1..Len(s), e \in 1..Len(s) :
        /\ IdAt(s, p, e)
        /\ e = Len(s) \/ ~IsIdChar(s[e + 1])
        /\ \A q \in 1..(p - 1), f \in 1..Len(s) : ~IdAt(s, q, f)
        /\ id = SubSeq(s, p + Len(Prefix), e)

\* C10: the identifier normalizer returns exactly the captured <id> for every
\* string that contains /spreadsheets/d/<id>, returns every other string
\* unchanged, and is idempotent: normalizing twice equals normalizing once.
C10_Normalizer ==
    /\ once # NotRun =>
          IF ContainsId(input) THEN CapturedId(input, once) ELSE once = input
    /\ twice # NotRun => twice = once

C10_Witness ==
    /\ input = Url
    /\ once = RawId
    /\ twice = RawId

\* a string without the pattern, and one where only the second occurrence of the literal has an <id>
C10_WitnessUnchanged ==
    /\ input = <<"/", "d", "/", "A">>
    /\ once = input
    /\ twice = input

C10_WitnessSecondOccurrence ==
    /\ input = Prefix \o Prefix \o <<"A">>
    /\ once = <<"A">>
    /\ twice = <<"A">>

\* the tool and the arguments of an invocation, on either entry point
ViaServer(r) == req[r].method = "server.tool"
InvokedName(r) == IF ViaServer(r) THEN Str(req[r].name) ELSE ToolName(r)
InvokedArgs(r) == IF ViaServer(r) THEN req[r].args ELSE ToolArgs(Get(Body(r), "params"))
\* the invoker or the callback ran for this slot
ToolRan(r) == pc[r] # "idle" /\ (ViaServer(r) \/ (IsToolsCall(r) /\ ~Falsy(ToolName(r))))

\* the operations that take a spreadsheet identifier
IdTools ==
    {"get_spreadsheet_info", "read_range", "write_range", "append_data", "clear_range",
     "add_sheet", "duplicate_sheet", "batch_update"}
\* those of them the entry point of the slot has
HasIdTool(r) ==
    /\ InvokedName(r).t = "string" /\ InvokedName(r).v \in IdTools
    /\ IF ViaServer(r) THEN InvokedName(r).v \in ServerNames ELSE RegisteredTool(r)

\* C11: every tool operation that takes a spreadsheet identifier
\* (get_spreadsheet_info, read_range, write_range, append_data, clear_range,
\* add_sheet, duplicate_sheet, batch_update) hands the external client the
\* normalized identifier, never the raw URL: the client call is made once the
\* credentials are read, its spreadsheetId is the <id> captured from the
\* argument, or the argument itself when it has none.  A read_range on
\* .../spreadsheets/d/ABC123/edit calls the client with ABC123 and its
\* response echoes the id of the request.
C11_NormalizedIdToClient ==
    \A r \in Slots :
        LET raw == Get(InvokedArgs(r), "spreadsheet_id")
        IN  /\ \A i \in 1..Len(calls[r]) :
                  "spreadsheetId" \in DOMAIN calls[r][i].params =>
                      /\ ToolRan(r) /\ HasIdTool(r)
                      /\ raw.t = "string"
                      /\ IF ContainsId(raw.v)
                         THEN CapturedId(raw.v, calls[r][i].params.spreadsheetId)
                         ELSE calls[r][i].params.spreadsheetId = raw.v
                      /\ calls[r][i].params.spreadsheetId # Url
            /\ (ToolRan(r) /\ HasIdTool(r) /\ raw.t = "string" /\ CredentialsParse(envKey)) =>
                  /\ Len(calls[r]) = 1
                  /\ "spreadsheetId" \in DOMAIN calls[r][1].params
            /\ (ToolRan(r) /\ ~ViaServer(r) /\ InvokedName(r) = Str("read_range")
                    /\ raw = Str(Url) /\ Answered(r)) =>
                  /\ EchoesId(r)
                  /\ calls[r] # <<>> => calls[r][1].params.spreadsheetId = RawId

\* read_range on the URL of ABC123, request id 1: the client read ABC123 and
\* the result carries id 1
C11_Witness ==
    \E r \in Slots :
        /\ IsToolsCall(r) /\ ToolName(r) = Str("read_range")
        /\ Get(InvokedArgs(r), "spreadsheet_id") = Str(Url)
        /\ Get(Body(r), "id") = Num(1)
        /\ Answered(r)
        /\ Len(calls[r]) = 1
        /\ calls[r][1].api = "spreadsheets.values.get"
        /\ calls[r][1].params.spreadsheetId = RawId
        /\ calls[r][1].state = "resolved"
        /\ IsResult(Envelope(r)) /\ ~IsToolFailure(Envelope(r))
        /\ Get(Envelope(r), "id") = Num(1)

\* batch_update on the same URL through the second entry point
C11_WitnessBatchUpdate ==
    \E r \in Slots :
        /\ ViaServer(r) /\ req[r].name = "batch_update"
        /\ Get(req[r].args, "spreadsheet_id") = Str(Url)
        /\ pc[r] = "done"
        /\ Len(calls[r]) = 1
        /\ calls[r][1].api = "spreadsheets.batchUpdate"
        /\ calls[r][1].params.spreadsheetId = RawId

IsInitialize(r) == ValidTag(r) /\ Method(r) = Str("initialize")

\* C12: initialize returns the same result for every request with a valid
\* envelope, whatever its params and whatever requests were or are being
\* handled: protocol version 2024-11-05, the server identity and the
\* capability flags; only the echoed id varies.
C12_InitializeConstant ==
    /\ \A r \in Slots :
          (IsInitialize(r) /\ pc[r] # "idle") =>
              /\ Answered(r) /\ Len(resp[r]) = 1
              /\ Response(r).status = 200
              /\ NoToolWork(r)
              /\ DOMAIN Envelope(r).v \subseteq {"jsonrpc", "id", "result"}
              /\ Get(Envelope(r), "jsonrpc") = Str("2.0")
              /\ EchoesId(r)
              /\ Get(Envelope(r), "result") =
                    Obj([protocolVersion |-> Str("2024-11-05"),
                         serverInfo |-> Obj([name |-> Str("google-sheets-mcp"),
                                             version |-> Str("1.0.0")]),
                         capabilities |-> Obj([tools |-> Obj(<<>>)])])
    /\ \A r, s \in Slots :
          (IsInitialize(r) /\ IsInitialize(s) /\ Answered(r) /\ Answered(s)) =>
              Get(Envelope(r), "result") = Get(Envelope(s), "result")

\* two initialize requests with different ids and params, one answered after
\* a tool call of the other slot had its client call in flight
C12_Witness ==
    \E r, s \in Slots :
        /\ r # s
        /\ IsInitialize(r) /\ IsInitialize(s)
        /\ Answered(r) /\ Answered(s)
        /\ Get(Body(r), "id") # Get(Body(s), "id")
        /\ Get(Body(r), "params") # Get(Body(s), "params")
        /\ Get(Envelope(r), "id") # Get(Envelope(s), "id")
        /\ Get(Envelope(r), "result") = Get(Envelope(s), "result")

\* initialize answered while the tool call of the other slot is in flight
C12_WitnessDuringCall ==
    \E r, s \in Slots :
        /\ IsInitialize(r) /\ Answered(r)
        /\ Get(Body(r), "params") # Undefined
        /\ pc[s] = "awaiting"

\* C13: an OPTIONS request is answered with success and no envelope; every
\* request whose HTTP method is neither OPTIONS nor POST, GET included, is
\* answered with the method-not-allowed envelope, code -32600 and id null;
\* in both cases the body is neither inspected nor dispatched: the answer is
\* the same with and without a body, and no tool work is done.
C13_PreflightAndOtherMethods ==
    \A r \in Slots :
        /\ (req[r].method = "OPTIONS" /\ pc[r] # "idle") =>
              /\ pc[r] = "done"
              /\ resp[r] = <<[status |-> 200, send |-> "end", body |-> Undefined]>>
              /\ NoToolWork(r)
        /\ (req[r].method \in HttpMethods \ {"OPTIONS", "POST"} /\ pc[r] # "idle") =>
              /\ pc[r] = "done"
              /\ Len(resp[r]) = 1
              /\ Response(r).status = 405
              /\ Response(r).send = "json"
              /\ IsError(Envelope(r), -32600)
              /\ Get(Envelope(r), "id") = Null
              /\ HasMember(Envelope(r), "id")
              /\ Get(Get(Envelope(r), "error"), "message") = Str("Method not allowed")
              /\ NoToolWork(r)

\* a GET that carries a complete tools/call envelope is turned away
C13_Witness ==
    \E r \in Slots :
        /\ req[r].method = "GET"
        /\ Body(r) = ReadRangeCall
        /\ Answered(r)
        /\ Response(r).status = 405
        /\ IsError(Envelope(r), -32600)
        /\ Get(Envelope(r), "id") = Null
        /\ calls[r] = <<>>

\* a preflight that carries the same envelope
C13_WitnessOptions ==
    \E r \in Slots :
        /\ req[r].method = "OPTIONS"
        /\ Body(r) = ReadRangeCall
        /\ pc[r] = "done"
        /\ Response(r).send = "end"
        /\ Response(r).status = 200

IsCreate(r) == ToolRan(r) /\ InvokedName(r) = Str("create_spreadsheet")
\* the value whose JSON text the tool result carries
ResultJson(r) ==
    LET result == IF ViaServer(r) THEN Response(r).body ELSE Get(Envelope(r), "result")
    IN  Get(result, "content").v[1].v.text.json
\* sheet_titles is a list with at least one title
HasTitles(r) ==
    LET titles == Get(InvokedArgs(r), "sheet_titles")
    IN  titles.t = "array" /\ Len(titles.v) > 0
Created(r) == IsCreate(r) /\ pc[r] = "done" /\ calls[r] # <<>> /\ calls[r][1].state = "resolved"

\* C14: create_spreadsheet with a non-empty sheet_titles asks the client for
\* one sheet per title, in the order given, and returns the titles of the
\* sheets the client reports, in the client's order: ["A","B"] comes back as
\* ["A","B"].  With sheet_titles absent or empty no sheets are requested and
\* the document has the single default sheet of the service.
C14_CreateSheetsInOrder ==
    \A r \in Slots :
        /\ (IsCreate(r) /\ calls[r] # <<>>) =>
              LET titles == Get(InvokedArgs(r), "sheet_titles")
                  body == calls[r][1].params.requestBody
              IN  /\ Len(calls[r]) = 1
                  /\ calls[r][1].api = "spreadsheets.create"
                  /\ body.properties.title = Get(InvokedArgs(r), "title")
                  /\ IF HasTitles(r)
                     THEN /\ "sheets" \in DOMAIN body
                          /\ Len(body.sheets) = Len(titles.v)
                          /\ \A i \in 1..Len(titles.v) :
                                body.sheets[i] = [properties |-> [title |-> titles.v[i]]]
                     ELSE "sheets" \notin DOMAIN body
        /\ (IsCreate(r) /\ CredentialsParse(envKey)) => calls[r] # <<>>
        /\ Created(r) =>
              LET reported == Get(calls[r][1].data, "sheets")
                  returned == Get(ResultJson(r), "sheets")
              IN  /\ returned.t = "array"
                  /\ Len(returned.v) = Len(reported.v)
                  /\ \A i \in 1..Len(reported.v) :
                        returned.v[i] = Get(Get(reported.v[i], "properties"), "title")
                  /\ Get(ResultJson(r), "spreadsheetId") = Get(calls[r][1].data, "spreadsheetId")
                  /\ Get(ResultJson(r), "spreadsheetUrl") = Get(calls[r][1].data, "spreadsheetUrl")
                  /\ Get(InvokedArgs(r), "sheet_titles") = Arr(<<Str("A"), Str("B")>>) =>
                        returned = Arr(<<Str("A"), Str("B")>>)
                  /\ ~HasTitles(r) => returned = Arr(<<Str("Sheet1")>>)

\* ["A","B"] through the JSON-RPC handler
C14_Witness ==
    \E r \in Slots :
        /\ ~ViaServer(r) /\ Created(r)
        /\ Get(InvokedArgs(r), "sheet_titles") = Arr(<<Str("A"), Str("B")>>)
        /\ Len(calls[r][1].params.requestBody.sheets) = 2
        /\ Get(ResultJson(r), "sheets") = Arr(<<Str("A"), Str("B")>>)

\* the same through the second entry point
C14_WitnessServer ==
    \E r \in Slots :
        /\ ViaServer(r) /\ Created(r)
        /\ Get(InvokedArgs(r), "sheet_titles") = Arr(<<Str("A"), Str("B")>>)
        /\ Get(ResultJson(r), "sheets") = Arr(<<Str("A"), Str("B")>>)

\* sheet_titles absent, and sheet_titles empty
C14_WitnessAbsent ==
    \E r \in Slots :
        /\ Created(r)
        /\ Get(InvokedArgs(r), "sheet_titles") = Undefined
        /\ "sheets" \notin DOMAIN calls[r][1].params.requestBody
        /\ Get(ResultJson(r), "sheets") = Arr(<<Str("Sheet1")>>)

C14_WitnessEmpty ==
    \E r \in Slots :
        /\ Created(r)
        /\ Get(InvokedArgs(r), "sheet_titles") = Arr(<<>>)
        /\ "sheets" \notin DOMAIN calls[r][1].params.requestBody
        /\ Get(ResultJson(r), "sheets") = Arr(<<Str("Sheet1")>>)

\* the request is answered without the external service: an invalid envelope,
\* or a method other than tools/call, or a tools/call without a tool name
Local(r) ==
    /\ HasEnvelope(r)
    /\ ~ValidTag(r) \/ Method(r) # Str("tools/call") \/ Falsy(ToolName(r))
LocalAnswered(r) == Local(r) /\ pc[r] # "idle"

\* C15: the server is stateless: nothing one request does is seen by another,
\* and the tool registry is never changed.  A request that does not reach the
\* external service (initialize, notifications/initialized, tools/list, an
\* unknown method, an invalid envelope, a tools/call without a tool name) gets
\* the same response whatever was handled before it or is in flight with it:
\* the response its category fixes, equal for equal requests, and tools/list
\* names the same nine tools every time.
C15_Stateless ==
    /\ \A r \in Slots :
          LocalAnswered(r) =>
              /\ Answered(r) /\ Len(resp[r]) = 1 /\ NoToolWork(r)
              /\ Response(r).send = "json"
              /\ IF ~ValidTag(r)
                    THEN Response(r).status = 400 /\ IsError(Envelope(r), -32600)
                 ELSE IF Method(r) = Str("initialize")
                    THEN /\ Response(r).status = 200
                         /\ Get(Get(Envelope(r), "result"), "protocolVersion") = Str("2024-11-05")
                 ELSE IF Method(r) = Str("notifications/initialized")
                    THEN Response(r).status = 200 /\ Get(Envelope(r), "result") = Obj(<<>>)
                 ELSE IF Method(r) = Str("tools/list")
                    THEN /\ Response(r).status = 200
                         /\ Len(Get(Get(Envelope(r), "result"), "tools").v) = 9
                         /\ ListedNames(Envelope(r)) =
                               {Str("list_spreadsheets"), Str("get_spreadsheet_info"),
                                Str("read_range"), Str("write_range"), Str("append_data"),
                                Str("clear_range"), Str("create_spreadsheet"),
                                Str("add_sheet"), Str("duplicate_sheet")}
                 ELSE IF Method(r) = Str("tools/call")
                    THEN Response(r).status = 400 /\ IsError(Envelope(r), -32602)
                 ELSE Response(r).status = 400 /\ IsError(Envelope(r), -32601)
    /\ \A r, s \in Slots :
          (LocalAnswered(r) /\ LocalAnswered(s) /\ req[r] = req[s]) => resp[r] = resp[s]

\* tools/list answered twice with the same response, and tools/list answered
\* next to a read_range whose client call resolved
C15_Witness ==
    \E r, s \in Slots :
        /\ r # s
        /\ LocalAnswered(r) /\ LocalAnswered(s)
        /\ Method(r) = Str("tools/list") /\ ValidTag(r)
        /\ req[r] = req[s]
        /\ resp[r] = resp[s]

C15_WitnessNextToCall ==
    \E r, s \in Slots :
        /\ LocalAnswered(r)
        /\ Method(r) = Str("tools/list") /\ ValidTag(r)
        /\ IsToolsCall(s) /\ pc[s] = "done"
        /\ calls[s] # <<>> /\ calls[s][1].state = "resolved"

C15_WitnessInFlight ==
    \E r, s \in Slots :
        /\ LocalAnswered(r)
        /\ Method(r) = Str("notifications/initialized") /\ ValidTag(r)
        /\ pc[s] = "awaiting"

\* a tools/call that reached the invoker, or a callback of the second entry point
\* (ToolRan), with its client call in flight
InFlight(r) == pc[r] \in {"awaiting", "serving"}

\* what holds of a tool invocation in every state
OnceSoFar(r) ==
    /\ Len(calls[r]) <= 1
    /\ Len(resp[r]) <= 1
    /\ InFlight(r) <=> (calls[r] # <<>> /\ calls[r][1].state = "pending")
    /\ InFlight(r) => resp[r] = <<>>
    /\ pc[r] = "done" => Len(resp[r]) = 1
    /\ pc[r] # "escaped"

\* what no step does: send a second response, start a second client call,
\* or touch a call that has settled
NoRetryStep(r) ==
    /\ resp[r] # <<>> => resp'[r] = resp[r]
    /\ calls[r] # <<>> =>
          /\ Len(calls'[r]) = 1
          /\ calls'[r][1].api = calls[r][1].api
          /\ calls'[r][1].params = calls[r][1].params
    /\ (calls[r] # <<>> /\ calls[r][1].state # "pending") => calls'[r] = calls[r]
    /\ (calls[r] # <<>> /\ calls'[r] # calls[r]) => Len(resp'[r]) = 1

\* C16: every tools/call request is answered exactly once and without local
\* retry: the external operation is invoked at most once, a failed external
\* call is never attempted again, and exactly one response is sent, never
\* none and never two, provided the external call resolves or fails.
C16_AnsweredOnceNoRetry ==
    /\ [](\A r \in Slots : ToolRan(r) => OnceSoFar(r))
    /\ [][\A r \in Slots : ToolRan(r) => NoRetryStep(r)]_vars
    /\ (ToolRan(1) /\ InFlight(1)) ~> (pc[1] = "done" /\ Len(resp[1]) = 1)

\* a tools/call whose only client call failed, answered once
C16_Witness ==
    \E r \in Slots :
        /\ IsToolsCall(r) /\ ToolRan(r)
        /\ pc[r] = "done"
        /\ Len(calls[r]) = 1 /\ calls[r][1].state = "rejected"
        /\ Len(resp[r]) = 1
        /\ IsToolFailure(Envelope(r))

\* the client call in flight, nothing sent yet
C16_WitnessInFlight ==
    \E r \in Slots :
        /\ IsToolsCall(r) /\ pc[r] = "awaiting"
        /\ Len(calls[r]) = 1 /\ calls[r][1].state = "pending"
        /\ resp[r] = <<>>

\* C17: for every POST request the HTTP status and the envelope agree: the
\* status is 200 exactly when the envelope carries a result member, and every
\* envelope that carries an error member is sent with a non-200 status (400,
\* 405 or 500) and an error code among -32600, -32601, -32602 and -32603.
C17_StatusMatchesEnvelope ==
    \A r \in Slots : \A i \in 1..Len(resp[r]) :
        (IsPost(r) /\ resp[r][i].send = "json") =>
            LET e == resp[r][i].body
                status == resp[r][i].status
            IN  /\ status = 200 <=> HasMember(e, "result")
                /\ HasMember(e, "error") =>
                      /\ status \in {400, 405, 500}
                      /\ Get(Get(e, "error"), "code") \in
                            {Num(-32600), Num(-32601), Num(-32602), Num(-32603)}
                /\ HasMember(e, "result") \/ HasMember(e, "error")

\* a POST answered 400 with the invalid-parameters error
C17_Witness ==
    \E r \in Slots :
        /\ IsPost(r) /\ Answered(r)
        /\ Response(r).status = 400
        /\ IsError(Envelope(r), -32602)

\* a POST answered 200 with a result that reports a tool failure
C17_WitnessToolFailure ==
    \E r \in Slots :
        /\ IsPost(r) /\ Answered(r)
        /\ Response(r).status = 200
        /\ IsToolFailure(Envelope(r))

====
